---- MODULE Spec2Model ----
(***************************************************************************)
(* Model of the single-tape Turing machine engine of                        *)
(* src/turing_machine.py: class TuringMachine (load_input, step, run,       *)
(* get_tape_string) and the two bundled machine definitions.                *)
(*                                                                          *)
(* Symbols, state identifiers and directions are strings; a tape and an     *)
(* input string are sequences of one-character symbols.  Python indexes     *)
(* the tape from 0, so cell head_position is tape[head_position + 1].       *)
(***************************************************************************)
EXTENDS Integers, Sequences, FiniteSets, TLC

VARIABLES
    M,              \* the machine definition given to __init__
    reject_first,   \* what list(self.reject_states)[0] yields in this process
    tape,           \* self.tape
    head_position,  \* self.head_position
    current_state,  \* self.current_state
    steps,          \* self.steps
    pc,             \* position of the caller: "idle", or inside run: "loop", "exit"
    input_string,   \* the argument of the last load_input or run
    max_steps,      \* run's argument max_steps
    last_call,      \* the call that completed last: "init", "load", "step", "run"
    step_ret,       \* return value of the last step() call
    step_kind,      \* path the last step() call took: "halted", "undefined", "moved"
    run_ret,        \* <<accepted, steps, final_tape>> of the last run, <<>> otherwise
    calls,          \* number of step() calls since the last load
    true_rets,      \* number of those calls that returned True
    len0,           \* tape length right after the last load
    saw_accept,     \* an accepting state was the current state since the last load
    undef_hit,      \* a step() since the last load took the undefined-transition path
    ref,            \* a remembered earlier run: <<input, max_steps, result,
                    \* it reached a halting state or an undefined transition>>, or <<>>
    ref_old         \* ref was already set when the last run was called

vars == <<M, reject_first, tape, head_position, current_state, steps, pc,
          input_string, max_steps, last_call, step_ret, run_ret, calls, len0,
          saw_accept, undef_hit, ref, step_kind, ref_old, true_rets>>

engine == <<tape, head_position, current_state, steps>>

----------------------------------------------------------------------------
(* Bounds of the model *)

MaxLen == 2         \* longest input given to a small machine
MaxBinLen == 4      \* longest input given to a bundled machine
MaxBudget == 3      \* largest max_steps given to a small machine
MaxCalls == 3       \* most step() calls a caller makes directly after a load
LoopBudget == 100   \* max_steps given to the two-state loop machine

DefaultMaxSteps == 10000

SeqsUpTo(S, n) == UNION {[1..k -> S] : k \in 0..n}

----------------------------------------------------------------------------
(* Machine definitions *)

MachineDef(states, alphabet, tape_alphabet, transitions, initial, acc, rej, blank) ==
    [states |-> states, alphabet |-> alphabet, tape_alphabet |-> tape_alphabet,
     transitions |-> transitions, initial_state |-> initial,
     accept_states |-> acc, reject_states |-> rej, blank_symbol |-> blank]

BinaryIncrement ==
    MachineDef({"start", "seek_end", "carry", "done", "reject"},
               {"0", "1"}, {"0", "1", "_"},
               (<<"start", "0">> :> <<"seek_end", "0", "R">>) @@
               (<<"start", "1">> :> <<"seek_end", "1", "R">>) @@
               (<<"start", "_">> :> <<"reject", "_", "N">>) @@
               (<<"seek_end", "0">> :> <<"seek_end", "0", "R">>) @@
               (<<"seek_end", "1">> :> <<"seek_end", "1", "R">>) @@
               (<<"seek_end", "_">> :> <<"carry", "_", "L">>) @@
               (<<"carry", "0">> :> <<"done", "1", "N">>) @@
               (<<"carry", "1">> :> <<"carry", "0", "L">>) @@
               (<<"carry", "_">> :> <<"done", "1", "N">>),
               "start", {"done"}, {"reject"}, "_")

PalindromeChecker ==
    MachineDef({"start", "check_0", "check_1", "move_left", "move_right",
                "accept", "reject"},
               {"0", "1"}, {"0", "1", "X", "_"},
               (<<"start", "0">> :> <<"check_0", "X", "R">>) @@
               (<<"start", "1">> :> <<"check_1", "X", "R">>) @@
               (<<"start", "X">> :> <<"accept", "X", "N">>) @@
               (<<"start", "_">> :> <<"accept", "_", "N">>) @@
               (<<"check_0", "0">> :> <<"check_0", "0", "R">>) @@
               (<<"check_0", "1">> :> <<"check_0", "1", "R">>) @@
               (<<"check_0", "X">> :> <<"check_0", "X", "R">>) @@
               (<<"check_0", "_">> :> <<"move_left", "_", "L">>) @@
               (<<"check_1", "0">> :> <<"check_1", "0", "R">>) @@
               (<<"check_1", "1">> :> <<"check_1", "1", "R">>) @@
               (<<"check_1", "X">> :> <<"check_1", "X", "R">>) @@
               (<<"check_1", "_">> :> <<"move_left", "_", "L">>) @@
               (<<"move_left", "0">> :> <<"move_right", "X", "L">>) @@
               (<<"move_left", "1">> :> <<"move_right", "X", "L">>) @@
               (<<"move_left", "X">> :> <<"move_left", "X", "L">>) @@
               (<<"move_right", "0">> :> <<"move_right", "0", "L">>) @@
               (<<"move_right", "1">> :> <<"move_right", "1", "L">>) @@
               (<<"move_right", "X">> :> <<"move_right", "X", "L">>) @@
               (<<"move_right", "_">> :> <<"start", "_", "R">>),
               "start", {"accept"}, {"reject"}, "_")

BundledMachines == {BinaryIncrement, PalindromeChecker}

\* Two non-halting states that alternate for ever on every symbol.
LoopMachine ==
    MachineDef({"ping", "pong", "acc", "rej"}, {"1"}, {"1", "_"},
               (<<"ping", "1">> :> <<"pong", "1", "N">>) @@
               (<<"ping", "_">> :> <<"pong", "_", "N">>) @@
               (<<"pong", "1">> :> <<"ping", "1", "N">>) @@
               (<<"pong", "_">> :> <<"ping", "_", "N">>),
               "ping", {"acc"}, {"rej"}, "_")

\* What a small machine may do on one (state, symbol) pair: nothing
\* (the pair is absent from the mapping) or one of these triples.
SmallTriples ==
    {<<q, w, d>> : q \in {"q0", "qa"}, w \in {"1", "_"}, d \in {"L", "R"}}

SmallTable(o1, o2) ==
    (IF o1 = <<>> THEN <<>> ELSE (<<"q0", "1">> :> o1)) @@
    (IF o2 = <<>> THEN <<>> ELSE (<<"q0", "_">> :> o2)) @@
    (<<"qa", "1">> :> <<"q0", "_", "R">>)

\* Every machine over states q0 (initial), qa (accepting, with an outgoing
\* transition that must never fire), qr (rejecting) and symbols 1 and blank.
SmallFamily ==
    {MachineDef({"q0", "qa", "qr"}, {"1"}, {"1", "_"}, SmallTable(o1, o2),
                "q0", {"qa"}, {"qr"}, "_") :
        o1 \in SmallTriples \cup {<<>>}, o2 \in SmallTriples \cup {<<>>}}

\* Machines outside the family: other directives, other rejecting sets,
\* halting states that overlap or are the initial state.
OddTable ==
    (<<"q0", "1">> :> <<"q1", "_", "N">>) @@
    (<<"q1", "_">> :> <<"q2", "1", "S">>) @@
    (<<"q2", "1">> :> <<"qa", "1", "L">>)

OddMachines ==
    {MachineDef({"q0", "q1", "q2", "qa", "qr", "qs"}, {"1"}, {"1", "_"},
                OddTable, init, acc, rej, "_") :
        init \in {"q0", "qa", "qr"},
        acc \in {{"qa"}, {"qa", "qr"}},
        rej \in {{}, {"qr"}, {"qr", "qs"}}}

\* Machines with two rejecting states and no transition on a blank, so
\* that an undefined transition can follow defined ones.
TwoRejectFamily ==
    {MachineDef({"q0", "qa", "qr", "qs"}, {"1"}, {"1", "_"}, SmallTable(o1, <<>>),
                "q0", {"qa"}, {"qr", "qs"}, "_") : o1 \in SmallTriples}

SmallMachines ==
    SmallFamily \cup TwoRejectFamily \cup OddMachines \cup {LoopMachine}

Inputs(m) ==
    SeqsUpTo(m.alphabet, IF m \in BundledMachines THEN MaxBinLen ELSE MaxLen)

Budgets(m) ==
    IF m \in BundledMachines THEN {DefaultMaxSteps}
    ELSE IF m = LoopMachine THEN {LoopBudget}
    ELSE 0..MaxBudget

\* list(reject_states)[0]: set iteration order is implementation-defined,
\* but fixed for an unmodified set within one process.
RejectChoices(m) ==
    IF m.reject_states = {} THEN {"REJECT"} ELSE m.reject_states

----------------------------------------------------------------------------
(* The engine: pure parts of load_input, step, run and get_tape_string *)

Halting(m, q) == q \in m.accept_states \/ q \in m.reject_states

\* Variant of ExtendTape: a head left of the tape gets its new cell appended
\* at the right end instead of inserted at the front.
ExtendTapeAppendOnly(m, t, h) ==
    IF h < 0 THEN [tape |-> Append(t, m.blank_symbol), head |-> 0]
    ELSE IF h >= Len(t) THEN [tape |-> Append(t, m.blank_symbol), head |-> h]
    ELSE [tape |-> t, head |-> h]

\* Variant of ExtendTape: new cells hold a space, not the blank symbol.
ExtendTapeSpace(m, t, h) ==
    IF h < 0 THEN [tape |-> <<" ">> \o t, head |-> 0]
    ELSE IF h >= Len(t) THEN [tape |-> Append(t, " "), head |-> h]
    ELSE [tape |-> t, head |-> h]

\* Variant of ExtendTape: the right edge grows by a block of three cells.
ExtendTapeByBlock(m, t, h) ==
    IF h < 0 THEN [tape |-> <<m.blank_symbol>> \o t, head |-> 0]
    ELSE IF h >= Len(t)
    THEN [tape |-> t \o <<m.blank_symbol, m.blank_symbol, m.blank_symbol>>,
          head |-> h]
    ELSE [tape |-> t, head |-> h]

\* step, lines 64-69: the boundary-extension check.
ExtendTape(m, t, h) ==
    IF h < 0 THEN [tape |-> <<m.blank_symbol>> \o t, head |-> 0]
    ELSE IF h >= Len(t) THEN [tape |-> Append(t, m.blank_symbol), head |-> h]
    ELSE [tape |-> t, head |-> h]

\* Variant of MoveHead: only L and N are recognized, anything else moves right.
MoveHeadDefaultRight(h, d) ==
    IF d = "L" THEN h - 1 ELSE IF d = "N" THEN h ELSE h + 1

\* Variant of MoveHead: a left move is not stopped from running two cells.
MoveHeadFar(h, d) ==
    IF d = "R" THEN h + 1 ELSE IF d = "L" THEN h - 2 ELSE h

\* step, lines 94-98: the head after a move directive.
MoveHead(h, d) ==
    IF d = "R" THEN h + 1 ELSE IF d = "L" THEN h - 1 ELSE h

\* Variant of ImplicitReject: the sentinel is used whatever the rejecting set.
ImplicitRejectSentinel(m, first) == "REJECT"

\* step, line 84: the state entered on an undefined transition.
ImplicitReject(m, first) ==
    IF m.reject_states # {} THEN first ELSE "REJECT"

\* Variant of StepResult: the implicit rejection is counted as a step.
StepResultCountsReject(m, first, t, h, q, n) ==
    LET e == ExtendTape(m, t, h)
        current_symbol == e.tape[e.head + 1]
        transition_key == <<q, current_symbol>>
    IN  IF q \in m.accept_states \/ q \in m.reject_states
        THEN [tape |-> e.tape, head |-> e.head, state |-> q, steps |-> n,
              ret |-> FALSE, kind |-> "halted"]
        ELSE IF transition_key \notin DOMAIN m.transitions
        THEN [tape |-> e.tape, head |-> e.head,
              state |-> ImplicitReject(m, first), steps |-> n + 1,
              ret |-> FALSE, kind |-> "undefined"]
        ELSE LET tr == m.transitions[transition_key]
             IN  [tape |-> [e.tape EXCEPT ![e.head + 1] = tr[2]],
                  head |-> MoveHead(e.head, tr[3]), state |-> tr[1],
                  steps |-> n + 1, ret |-> TRUE, kind |-> "moved"]

\* step as a function of the run state: the new run state and the value
\* returned.  kind tells the path taken.
StepResult(m, first, t, h, q, n) ==
    LET e == ExtendTape(m, t, h)
        current_symbol == e.tape[e.head + 1]
        transition_key == <<q, current_symbol>>
    IN  IF q \in m.accept_states \/ q \in m.reject_states
        THEN [tape |-> e.tape, head |-> e.head, state |-> q, steps |-> n,
              ret |-> FALSE, kind |-> "halted"]
        ELSE IF transition_key \notin DOMAIN m.transitions
        THEN [tape |-> e.tape, head |-> e.head,
              state |-> ImplicitReject(m, first), steps |-> n,
              ret |-> FALSE, kind |-> "undefined"]
        ELSE LET tr == m.transitions[transition_key]
             IN  [tape |-> [e.tape EXCEPT ![e.head + 1] = tr[2]],
                  head |-> MoveHead(e.head, tr[3]), state |-> tr[1],
                  steps |-> n + 1, ret |-> TRUE, kind |-> "moved"]

\* Variant of LoadTape: an empty input leaves an empty tape.
LoadTapeNoBlank(m, w) == w

\* load_input, line 52: the tape made from an input string.
LoadTape(m, w) == IF w # <<>> THEN w ELSE <<m.blank_symbol>>

RECURSIVE RStrip(_, _)
\* str.rstrip(blank): drop the trailing cells equal to blank.
RStrip(t, blank) ==
    IF t # <<>> /\ t[Len(t)] = blank
    THEN RStrip(SubSeq(t, 1, Len(t) - 1), blank)
    ELSE t

RECURSIVE LStrip(_, _)
\* str.lstrip(blank): drop the leading cells equal to blank.
LStrip(t, blank) ==
    IF t # <<>> /\ t[1] = blank THEN LStrip(Tail(t), blank) ELSE t

\* Variant of get_tape_string: blanks are trimmed at both ends (str.strip).
get_tape_string_stripped(m, t) ==
    LET tape_str == LStrip(RStrip(t, m.blank_symbol), m.blank_symbol)
    IN  IF tape_str = <<>> THEN <<m.blank_symbol>> ELSE tape_str

\* Variant of get_tape_string: trailing blanks are not trimmed.
get_tape_string_untrimmed(m, t) ==
    IF t = <<>> THEN <<m.blank_symbol>> ELSE t

\* get_tape_string, lines 142-147.
get_tape_string(m, t) ==
    LET tape_str == RStrip(t, m.blank_symbol)
    IN  IF tape_str = <<>> THEN <<m.blank_symbol>> ELSE tape_str

\* Variant of LoopCond: the budget is checked one iteration late.
LoopCondLate(n, b) == n <= b

\* run, line 121: the condition of the while loop.
LoopCond(n, b) == n < b

\* Variant of Accepted: anything but the one state named qr counts as accepted.
AcceptedNotNamedReject(m, q) == q # "qr"

\* Variant of Accepted: whatever is not rejecting counts as accepted.
AcceptedUnlessRejecting(m, q) == q \notin m.reject_states

\* run, line 129.
Accepted(m, q) == q \in m.accept_states

RECURSIVE RunLoopFrom(_, _, _, _, _, _, _)
\* run, lines 121-138, as a function: the triple returned when the loop
\* starts from run state (t, h, q, n) with budget b.
RunLoopFrom(m, first, t, h, q, n, b) ==
    IF ~LoopCond(n, b)
    THEN <<Accepted(m, q), n, get_tape_string(m, t)>>
    ELSE LET r == StepResult(m, first, t, h, q, n)
         IN  IF r.ret
             THEN RunLoopFrom(m, first, r.tape, r.head, r.state, r.steps, b)
             ELSE <<Accepted(m, r.state), r.steps, get_tape_string(m, r.tape)>>

\* run(w, b), lines 115-138, as a function of the machine and of what
\* list(reject_states)[0] yields.
RunTriple(m, first, w, b) ==
    RunLoopFrom(m, first, LoadTape(m, w), 0, m.initial_state, 0, b)

----------------------------------------------------------------------------
(* Initial states: the engine right after __init__ *)

InitOf(machines) ==
    /\ M \in machines
    /\ reject_first \in RejectChoices(M)
    /\ tape = <<>>
    /\ head_position = 0
    /\ current_state = M.initial_state
    /\ steps = 0
    /\ pc = "idle"
    /\ input_string = <<>>
    /\ max_steps = 0
    /\ last_call = "init"
    /\ step_ret = FALSE
    /\ run_ret = <<>>
    /\ calls = 0
    /\ true_rets = 0
    /\ len0 = 0
    /\ saw_accept = (M.initial_state \in M.accept_states)
    /\ undef_hit = FALSE
    /\ ref = <<>>
    /\ step_kind = "none"
    /\ ref_old = FALSE

Init == InitOf(SmallMachines)

----------------------------------------------------------------------------
(* Operations *)

\* Variant of DoLoad: the current state is left as it was.
DoLoadKeepState(w) ==
    /\ tape' = LoadTape(M, w)
    /\ head_position' = 0
    /\ current_state' = current_state
    /\ steps' = 0
    /\ calls' = 0
    /\ true_rets' = 0
    /\ len0' = Len(LoadTape(M, w))
    /\ saw_accept' = (current_state \in M.accept_states)
    /\ undef_hit' = FALSE

\* The assignments of load_input(w), lines 52-55.
DoLoad(w) ==
    /\ tape' = LoadTape(M, w)
    /\ head_position' = 0
    /\ current_state' = M.initial_state
    /\ steps' = 0
    /\ calls' = 0
    /\ true_rets' = 0
    /\ len0' = Len(LoadTape(M, w))
    /\ saw_accept' = (M.initial_state \in M.accept_states)
    /\ undef_hit' = FALSE

\* One call of step(), lines 64-101.
DoStep ==
    LET r == StepResult(M, reject_first, tape, head_position, current_state, steps)
    IN  /\ tape' = r.tape
        /\ head_position' = r.head
        /\ current_state' = r.state
        /\ steps' = r.steps
        /\ step_ret' = r.ret
        /\ step_kind' = r.kind
        /\ calls' = calls + 1
        /\ true_rets' = (IF r.ret THEN true_rets + 1 ELSE true_rets)
        /\ saw_accept' = (saw_accept \/ r.state \in M.accept_states)
        /\ undef_hit' = (undef_hit \/ r.kind = "undefined")

\* The caller calls load_input(w).
load_input ==
    /\ pc = "idle"
    /\ \E w \in Inputs(M) : DoLoad(w) /\ input_string' = w
    /\ last_call' = "load"
    /\ run_ret' = <<>>
    /\ UNCHANGED <<M, reject_first, pc, max_steps, step_ret, step_kind, ref, ref_old>>

\* The caller calls step().
step ==
    /\ pc = "idle"
    /\ calls < MaxCalls
    /\ DoStep
    /\ last_call' = "step"
    /\ run_ret' = <<>>
    /\ UNCHANGED <<M, reject_first, pc, input_string, max_steps, len0, ref, ref_old>>

\* run, line 115: the caller calls run(w, b); run loads the input.
RunCall ==
    /\ pc = "idle"
    /\ \E w \in Inputs(M), b \in Budgets(M) :
          /\ DoLoad(w)
          /\ input_string' = w
          /\ max_steps' = b
    /\ pc' = "loop"
    /\ last_call' = "load"
    /\ run_ret' = <<>>
    /\ ref_old' = (ref # <<>>)
    /\ UNCHANGED <<M, reject_first, step_ret, step_kind, ref>>

\* run, lines 121-123: one iteration of the while loop.
RunLoop ==
    /\ pc = "loop"
    /\ LoopCond(steps, max_steps)
    /\ DoStep
    /\ pc' = IF step_ret' THEN "loop" ELSE "exit"
    /\ last_call' = "step"
    /\ UNCHANGED <<M, reject_first, input_string, max_steps, run_ret, len0, ref,
                   ref_old>>

\* run, lines 129-138: the result triple.
RunResult == <<Accepted(M, current_state), steps, get_tape_string(M, tape)>>

\* run leaves the loop and returns; an observer may remember the result.
RunReturn ==
    /\ pc = "exit" \/ (pc = "loop" /\ ~LoopCond(steps, max_steps))
    /\ run_ret' = RunResult
    /\ pc' = "idle"
    /\ last_call' = "run"
    /\ \/ ref' = ref
       \/ ref = <<>> /\ ref' = <<input_string, max_steps, RunResult,
                                 Halting(M, current_state) \/ undef_hit>>
    /\ UNCHANGED <<M, reject_first, engine, input_string, max_steps, step_ret,
                   step_kind, calls, true_rets, len0, saw_accept, undef_hit,
                   ref_old>>

Next == load_input \/ step \/ RunCall \/ RunLoop \/ RunReturn

Spec == Init /\ [][Next]_vars

\* run is sequential code with no blocking call: once called, its loop and
\* its return keep being executed.
SpecFair == Init /\ [][Next]_vars /\ WF_vars(RunLoop) /\ WF_vars(RunReturn)

InitPalindrome == InitOf({PalindromeChecker})
SpecPalindrome == InitPalindrome /\ [][Next]_vars

InitIncrement == InitOf({BinaryIncrement})
SpecIncrement == InitIncrement /\ [][Next]_vars

----------------------------------------------------------------------------
(* Properties *)

\* A load has happened on this engine (a loaded tape is never empty).
Loaded == len0 >= 1

\* The transition is a call of step(), direct or from run's loop.
IsStepCall == calls' = calls + 1

\* The symbol under the head; a cell beyond the materialized tape is blank.
SymbolUnderHead == LET e == ExtendTape(M, tape, head_position)
                   IN  e.tape[e.head + 1]

\* C1: halting absorption -- a step() call made while the current state is
\* accepting or rejecting returns False and leaves the tape and the step
\* counter as they were, whatever the head position.
C1_HaltingAbsorption ==
    [][(Loaded /\ IsStepCall /\ Halting(M, current_state))
         => (step_ret' = FALSE /\ tape' = tape /\ steps' = steps)]_vars

\* C2 as stated: whenever (current state, symbol under the head) is absent
\* from the transition mapping, step() returns False, keeps the counter and
\* ends in a rejecting state (or the sentinel when there is none).
C2_Original ==
    [][(Loaded /\ IsStepCall
          /\ <<current_state, SymbolUnderHead>> \notin DOMAIN M.transitions)
         => (/\ step_ret' = FALSE
             /\ steps' = steps
             /\ IF M.reject_states = {} THEN current_state' = "REJECT"
                ELSE current_state' \in M.reject_states)]_vars

\* C2 amended: implicit rejection -- the same, for a current state that is
\* neither accepting nor rejecting.
C2_ImplicitRejection ==
    [][(Loaded /\ IsStepCall /\ ~Halting(M, current_state)
          /\ <<current_state, SymbolUnderHead>> \notin DOMAIN M.transitions)
         => (/\ step_ret' = FALSE
             /\ steps' = steps
             /\ IF M.reject_states = {} THEN current_state' = "REJECT"
                ELSE current_state' \in M.reject_states)]_vars

\* A step() has just rejected implicitly into a member of a rejecting set
\* that has two members.
C2_Witness ==
    /\ Loaded /\ last_call = "step" /\ step_kind = "undefined"
    /\ Cardinality(M.reject_states) = 2
    /\ current_state \in M.reject_states

\* C3: tape growth bound -- after a load and N step() calls the tape is at
\* most N cells longer than right after the load, and no step() call ever
\* shortens the tape.
C3_TapeGrowthBound ==
    /\ [](Loaded => Len(tape) <= len0 + calls)
    /\ [][IsStepCall => Len(tape') >= Len(tape)]_vars

\* Every step() call since the load but the first has extended the tape.
C3_Witness ==
    Loaded /\ calls >= 3 /\ Len(tape) = len0 + calls - 1

\* C4: head validity -- between calls -1 <= head <= len(tape), and right
\* after the boundary-extension check of a step() the head is an index of
\* the tape.
C4_HeadValidity ==
    Loaded =>
        /\ -1 <= head_position /\ head_position <= Len(tape)
        /\ LET e == ExtendTape(M, tape, head_position)
           IN  0 <= e.head /\ e.head < Len(e.tape)

\* A step() has just moved the head off the left edge of the tape.
C4_Witness ==
    Loaded /\ last_call = "step" /\ step_kind = "moved" /\ head_position = -1

\* C5: determinism -- a run returns the triple that any earlier run of the
\* same input and max_steps on this engine returned, whatever was called in
\* between.
C5_Determinism ==
    (last_call = "run" /\ ref # <<>>
       /\ ref[1] = input_string /\ ref[2] = max_steps)
      => run_ret = ref[3]

\* A run has returned whose input and budget were those of a run remembered
\* before it was called, after at least one transition.
C5_Witness ==
    /\ last_call = "run" /\ ref_old
    /\ ref[1] = input_string /\ ref[2] = max_steps
    /\ run_ret[2] >= 1

\* C6: acceptance result -- run returns accepted = TRUE exactly when the
\* current state after the loop is accepting, which is exactly when an
\* accepting state was entered during the run; a run that ends in a
\* non-halting state returns accepted = FALSE.
C6_AcceptanceResult ==
    last_call = "run" =>
        /\ run_ret[1] = (current_state \in M.accept_states)
        /\ run_ret[1] = saw_accept
        /\ (~Halting(M, current_state) => run_ret[1] = FALSE)

\* A run has accepted on the very transition that used up its budget.
C6_Witness ==
    /\ last_call = "run" /\ run_ret[1] = TRUE
    /\ run_ret[2] = max_steps /\ max_steps >= 1

\* C7: step-budget exhaustion -- a run in which neither a halting state nor
\* an undefined transition was reached returns steps = max_steps and
\* accepted = FALSE.
C7_BudgetExhaustion ==
    (last_call = "run" /\ ~Halting(M, current_state) /\ ~undef_hit)
      => (run_ret[2] = max_steps /\ run_ret[1] = FALSE)

\* The two-state loop has run out of its budget.
C7_Witness ==
    /\ last_call = "run" /\ M = LoopMachine /\ max_steps = LoopBudget
    /\ run_ret[2] = LoopBudget /\ run_ret[1] = FALSE
    /\ current_state \in {"ping", "pong"}

Reverse(w) == [i \in 1..Len(w) |-> w[Len(w) + 1 - i]]

\* C8: palindrome machine -- a run of the bundled palindrome checker on a
\* binary string accepts exactly when the string equals its reverse.
C8_PalindromeAccepts ==
    last_call = "run" => (run_ret[1] = (input_string = Reverse(input_string)))

\* Value of a binary numeral.
BinValue(w) ==
    LET val[i \in 0..Len(w)] ==
            IF i = 0 THEN 0 ELSE 2 * val[i - 1] + (IF w[i] = "1" THEN 1 ELSE 0)
    IN  val[Len(w)]

\* The k-digit binary numeral of n.
Numeral(n, k) ==
    [i \in 1..k |-> IF (n \div 2^(k - i)) % 2 = 1 THEN "1" ELSE "0"]

\* C9: binary increment machine -- a run of the bundled increment machine
\* on a non-empty binary string w accepts and renders the numeral of
\* value(w)+1, with len(w) digits, or len(w)+1 digits when w is all 1s.
C9_BinaryIncrement ==
    (last_call = "run" /\ input_string # <<>>) =>
        LET w == input_string
            k == IF \A i \in 1..Len(w) : w[i] = "1" THEN Len(w) + 1 ELSE Len(w)
        IN  /\ run_ret[1] = TRUE
            /\ run_ret[3] = Numeral(BinValue(w) + 1, k)

\* The run on 1111 has returned 10000.
C9_Witness ==
    /\ last_call = "run" /\ input_string = <<"1", "1", "1", "1">>
    /\ run_ret[3] = <<"1", "0", "0", "0", "0">>

\* C10: load resets the run state -- right after load(input) the tape is
\* the input's symbols (one blank cell for an empty input), the head is 0,
\* the current state is the initial state and the step counter is 0.
C10_LoadResets ==
    last_call = "load" =>
        /\ tape = (IF Len(input_string) = 0 THEN <<M.blank_symbol>>
                   ELSE input_string)
        /\ head_position = 0
        /\ current_state = M.initial_state
        /\ steps = 0

\* A load of the empty input has happened on an engine that has completed
\* a run before.
C10_Witness ==
    /\ last_call = "load" /\ pc = "idle" /\ ref # <<>>
    /\ input_string = <<>> /\ tape = <<M.blank_symbol>>

\* The machine meets the premise of C11: its initial state and the targets
\* of its transitions are members of its state set.
TargetsInStates ==
    /\ M.initial_state \in M.states
    /\ \A k \in DOMAIN M.transitions : M.transitions[k][1] \in M.states

\* C11 as stated: current-state membership -- whether the rejecting set is
\* empty or not, the current state is always a member of the state set.
C11_Original ==
    TargetsInStates => current_state \in M.states

\* C11 amended: the current state is a member of the state set, or it is
\* the sentinel REJECT, entered on an undefined transition of a machine
\* whose rejecting set is empty.
C11_StateMembership ==
    (TargetsInStates /\ M.reject_states \subseteq M.states) =>
        \/ current_state \in M.states
        \/ /\ M.reject_states = {}
           /\ current_state = "REJECT"
           /\ undef_hit

\* A step() has just rejected implicitly on a machine with a rejecting set,
\* and the state entered is a member of the state set.
C11_Witness ==
    /\ Loaded /\ last_call = "step" /\ step_kind = "undefined"
    /\ M.reject_states # {} /\ current_state \in M.states
    /\ current_state # M.initial_state

\* Index of the last cell of t that is not blank, 0 when every cell is blank.
LastNonBlank(t, blank) ==
    LET nb == {i \in 1..Len(t) : t[i] # blank}
    IN  IF nb = {} THEN 0 ELSE CHOOSE i \in nb : \A j \in nb : j <= i

\* The cells of t up to the last non-blank one, or one blank when there is none.
TrimmedCells(t, blank) ==
    IF LastNonBlank(t, blank) = 0 THEN <<blank>>
    ELSE SubSeq(t, 1, LastNonBlank(t, blank))

TapeAfterCheck ==
    IF head_position < 0 THEN <<M.blank_symbol>> \o tape
    ELSE IF head_position >= Len(tape) THEN tape \o <<M.blank_symbol>>
    ELSE tape

HeadAfterCheck == IF head_position < 0 THEN 0 ELSE head_position

\* C13: defined transition -- a step() from a non-halting state whose pair
\* (state, symbol read) maps to (q, w, d) writes w at the cell read and
\* changes no other cell, enters q, moves the head from the cell read by +1
\* for R, -1 for L and 0 for anything else, adds 1 to the step counter and
\* returns True.
C13_DefinedTransition ==
    [][(/\ IsStepCall
        /\ ~Halting(M, current_state)
        /\ <<current_state, SymbolUnderHead>> \in DOMAIN M.transitions)
       => LET tr == M.transitions[<<current_state, SymbolUnderHead>>]
              cell == HeadAfterCheck + 1
              delta == IF tr[3] = "R" THEN 1 ELSE IF tr[3] = "L" THEN -1 ELSE 0
          IN  /\ Len(tape') = Len(TapeAfterCheck)
              /\ tape'[cell] = tr[2]
              /\ \A i \in 1..Len(tape') : i # cell => tape'[i] = TapeAfterCheck[i]
              /\ current_state' = tr[1]
              /\ head_position' = HeadAfterCheck + delta
              /\ steps' = steps + 1
              /\ step_ret' = TRUE]_vars

\* A step() has just taken the transition whose directive is the
\* unrecognized value S, and the head has stayed where it was.
C13_Witness ==
    /\ Loaded /\ last_call = "step" /\ step_kind = "moved"
    /\ M \in OddMachines /\ current_state = "q2"
    /\ head_position = 0 /\ tape = <<"1">> /\ steps = 2

\* C14: boundary extension -- a step() call first puts one blank in front of
\* the tape and the head at 0 when the head is < 0, else appends one blank
\* and keeps the head when the head is >= the tape length, else leaves both;
\* so a step() adds at most one cell, and apart from the cell a transition
\* writes, the tape after the call is the tape after that check.
C14_BoundaryExtension ==
    [][IsStepCall
       => /\ Len(tape') = Len(TapeAfterCheck)
          /\ Len(tape') <= Len(tape) + 1
          /\ \A i \in 1..Len(tape') :
                i # HeadAfterCheck + 1 => tape'[i] = TapeAfterCheck[i]
          /\ step_kind' # "moved"
                => (tape' = TapeAfterCheck /\ head_position' = HeadAfterCheck)]_vars

\* A step() in a halting state has just put a blank in front of the tape.
C14_Witness ==
    /\ Loaded /\ last_call = "step" /\ step_kind = "halted"
    /\ len0 = 1 /\ tape = <<M.blank_symbol, "1">> /\ head_position = 0
    /\ calls = 2

\* The machine meets the premise of C15: the blank symbol, every symbol a
\* transition writes and every input symbol belong to the tape alphabet.
AlphabetsClosed ==
    /\ M.blank_symbol \in M.tape_alphabet
    /\ M.alphabet \subseteq M.tape_alphabet
    /\ \A k \in DOMAIN M.transitions : M.transitions[k][2] \in M.tape_alphabet

\* C15: tape alphabet invariant -- once loaded, the tape is never empty and
\* every cell holds a symbol of the tape alphabet.
C15_TapeAlphabet ==
    (AlphabetsClosed /\ Loaded) =>
        /\ tape # <<>>
        /\ \A i \in 1..Len(tape) : tape[i] \in M.tape_alphabet

\* A step() has just written a cell of a tape that has been extended.
C15_Witness ==
    /\ AlphabetsClosed /\ Loaded
    /\ last_call = "step" /\ step_kind = "moved" /\ Len(tape) > len0

\* C16: step counter accounting -- the step counter is non-negative and
\* equals the number of step() calls that returned True since the last
\* load; a step() call returns True exactly when it adds 1 to the counter
\* and False exactly when it leaves the counter alone.
C16_StepAccounting ==
    /\ [](steps >= 0 /\ steps = true_rets)
    /\ [][IsStepCall => /\ (step_ret' = TRUE) = (steps' = steps + 1)
                        /\ (step_ret' = FALSE) = (steps' = steps)]_vars

\* A step() has just returned False by implicit rejection after two that
\* returned True.
C16_Witness ==
    /\ Loaded /\ last_call = "step" /\ step_ret = FALSE
    /\ step_kind = "undefined" /\ steps = 2 /\ calls = 3

\* C17: run termination -- a run that was called returns; it makes at most
\* max_steps calls of step(), none after one that returned False, and the
\* steps it returns lie in 0..max_steps.
C17_RunTermination ==
    /\ (pc # "idle") ~> (pc = "idle")
    /\ []((pc # "idle" \/ last_call = "run") => calls <= max_steps)
    /\ [](last_call = "run" => (0 <= run_ret[2] /\ run_ret[2] <= max_steps))
    /\ [][pc = "exit" => ~IsStepCall]_vars

\* A run has returned after a step() that returned False, having made
\* exactly max_steps calls.
C17_Witness ==
    /\ last_call = "run" /\ step_ret = FALSE
    /\ calls = max_steps /\ max_steps >= 2 /\ run_ret[2] = max_steps - 1

\* The run that just returned and the remembered run had the same input,
\* the remembered run reached a halting state or an undefined transition
\* after k = ref[3][2] transitions, and the budget of this run is >= k.
SameInputHaltedAtK ==
    /\ last_call = "run" /\ ref # <<>>
    /\ ref[1] = input_string /\ ref[4]
    /\ max_steps >= ref[3][2]

\* C18 as stated: budget independence -- for every machine, a run whose
\* budget is at least the k at which the machine halts returns the same
\* accepted value and steps = k.
C18_Original ==
    SameInputHaltedAtK =>
        (run_ret[1] = ref[3][1] /\ run_ret[2] = ref[3][2])

\* C18 amended: the same, for a machine whose accepting set contains no
\* rejecting state and not the sentinel REJECT.
C18_BudgetIndependence ==
    (/\ SameInputHaltedAtK
     /\ M.accept_states \cap M.reject_states = {}
     /\ "REJECT" \notin M.accept_states)
      => (run_ret[1] = ref[3][1] /\ run_ret[2] = ref[3][2])

\* A run whose budget is exactly k has returned before taking the undefined
\* transition that a remembered run with a larger budget took.
C18_Witness ==
    /\ SameInputHaltedAtK /\ ref_old
    /\ M.accept_states \cap M.reject_states = {}
    /\ max_steps = ref[3][2] /\ ref[2] > max_steps /\ max_steps >= 1
    /\ ~Halting(M, current_state) /\ ~undef_hit

\* C19: reject-choice independence -- for a machine with disjoint accepting
\* and rejecting sets and more than one rejecting state, the triple a run
\* returns is the triple it returns for every other member of the rejecting
\* set that list(reject_states)[0] could yield.
C19_RejectChoiceIndependence ==
    (/\ last_call = "run"
     /\ M.accept_states \cap M.reject_states = {}
     /\ Cardinality(M.reject_states) > 1)
      => \A f \in M.reject_states :
            RunTriple(M, f, input_string, max_steps) = run_ret

\* A run has ended by implicit rejection into one of two rejecting states.
C19_Witness ==
    /\ last_call = "run" /\ step_kind = "undefined" /\ undef_hit
    /\ M.accept_states \cap M.reject_states = {}
    /\ Cardinality(M.reject_states) > 1
    /\ current_state = "qs" /\ run_ret[2] >= 1

====
